---- MODULE Spec2Model ----
(***************************************************************************)
(* Model of gen.Generator (gen/generator.go): the accumulated compilation  *)
(* unit (root namespace, import registry, declaration list) and the        *)
(* operations TextTemplate, DeclareFromTemplate, Import and Write.         *)
(*                                                                         *)
(* An identifier is a sequence of one-character tokens, so that            *)
(* fmt.Sprintf("%s%d", base, i) is concatenation of the decimal digits.    *)
(* A module path is the sequence of its slash-separated components.        *)
(***************************************************************************)
EXTENDS Integers, Sequences, FiniteSets, TLC

VARIABLES
    heap,      \* namespace object -> set of names taken in it (root scopes)
    imports,   \* importer.imports: module path -> local alias
    decls,     \* Generator.decls
    last,      \* the last call: operation, arguments, error, returned values
    pre        \* heap, imports and decls as they were when the last call began

vars == <<heap, imports, decls, last, pre>>

----------------------------------------------------------------------------
(* Bounds and input universes *)

MaxDecls == 3        \* the unit is grown to at most this many declarations
MaxTemplate == 2     \* function calls plus declarations in one template

NoName == <<>>       \* an ImportSpec without a local name (spec.Name == nil)

Paths == {<<"p", "a">>, <<"q", "A">>}
DeclNames == {<<"a">>, <<"b">>}
FuncNames == {<<"a">>}
VarPrefs == {<<"a">>}
Bodies == {"f", "g"}

----------------------------------------------------------------------------
(* Identifiers *)

DigitChar == <<"0", "1", "2", "3", "4", "5", "6", "7", "8", "9">>

RECURSIVE Digits(_)
Digits(i) ==
    IF i < 10 THEN <<DigitChar[i + 1]>>
    ELSE Digits(i \div 10) \o <<DigitChar[(i % 10) + 1]>>

Sprintf(base, i) == base \o Digits(i)

Keywords == {<<"g", "o">>, <<"i", "f">>}

Lower(c) == CASE c = "A" -> "a" [] c = "P" -> "p" [] c = "Q" -> "q" [] OTHER -> c

Alphabet == <<"A", "P", "Q", "a", "b", "p", "q">>

Ord(c) == CHOOSE k \in 1..Len(Alphabet) : Alphabet[k] = c

RECURSIVE PathLess(_, _)
PathLess(p, q) ==
    IF p = <<>> THEN q # <<>>
    ELSE IF q = <<>> THEN FALSE
    ELSE IF Head(p) = Head(q) THEN PathLess(Tail(p), Tail(q))
    ELSE Ord(Head(p)) < Ord(Head(q))

----------------------------------------------------------------------------
(* namespace: a scope of taken names; a child sees its parent's names *)

IsTaken(taken, parent, name) ==
    name \in Keywords \/ name \in taken \/ name \in parent

RECURSIVE NewNameFrom(_, _, _, _)
NewNameFrom(taken, parent, base, i) ==
    IF IsTaken(taken, parent, Sprintf(base, i))
    THEN NewNameFrom(taken, parent, base, i + 1)
    ELSE Sprintf(base, i)

NewName(taken, parent, base) ==
    IF IsTaken(taken, parent, base) THEN NewNameFrom(taken, parent, base, 2)
    ELSE base

\* Reserve on a root namespace ns of generator state g
Reserve(g, ns, name) ==
    IF IsTaken(g.heap[ns], {}, name)
    THEN [g |-> g, err |-> "collision"]
    ELSE [g |-> [g EXCEPT !.heap[ns] = @ \cup {name}], err |-> "none"]

----------------------------------------------------------------------------
(* NewGenerator *)

GenNamespace == "root"

ImporterNamespaceOwn == "imp"
ImporterNamespace == GenNamespace

Namespaces == {GenNamespace, ImporterNamespace}

NewGenerator ==
    [heap    |-> [n \in Namespaces |-> {}],
     imports |-> [p \in {} |-> NoName],
     decls   |-> <<>>]

----------------------------------------------------------------------------
(* importer *)

AliasBase(path) == <<Lower(path[Len(path)])>>

Registered(g) == DOMAIN g.imports

Import(g, path) ==
    IF path \in Registered(g)
    THEN [g |-> g, name |-> g.imports[path]]
    ELSE LET name == NewName(g.heap[ImporterNamespace], {}, AliasBase(path))
         IN  [g |-> [g EXCEPT !.heap[ImporterNamespace] = @ \cup {name},
                              !.imports = [p \in Registered(g) \cup {path} |->
                                             IF p = path THEN name ELSE g.imports[p]]],
              name |-> name]

SpecAlias(spec) == IF spec.name = NoName THEN AliasBase(spec.path) ELSE spec.name

AddImportSpec(g, spec) ==
    IF spec.path \in Registered(g)
    THEN IF g.imports[spec.path] = SpecAlias(spec)
         THEN [g |-> g, err |-> "none"]
         ELSE [g |-> g, err |-> "import"]
    ELSE LET r == Reserve(g, ImporterNamespace, SpecAlias(spec))
         IN  IF r.err # "none" THEN [g |-> g, err |-> "import"]
             ELSE [g |-> [r.g EXCEPT !.imports =
                             [p \in Registered(g) \cup {spec.path} |->
                                IF p = spec.path THEN SpecAlias(spec) ELSE g.imports[p]]],
                   err |-> "none"]

RECURSIVE SortPaths(_)
SortPaths(ps) ==
    IF ps = {} THEN <<>>
    ELSE LET m == CHOOSE p \in ps : \A q \in ps \ {p} : PathLess(p, q)
         IN  <<m>> \o SortPaths(ps \ {m})

ImportSpecs(g) ==
    LET sorted == SortPaths(Registered(g))
    IN  [k \in 1..Len(sorted) |-> [path |-> sorted[k], name |-> g.imports[sorted[k]]]]

\* importDecl: the sequence holding the generated import block, empty when nil
importDecl(g) ==
    IF Registered(g) = {} THEN <<>>
    ELSE <<[node |-> "GenDecl", tok |-> "IMPORT", specs |-> ImportSpecs(g)]>>

----------------------------------------------------------------------------
(* Templates: the function calls a template makes while it executes, how   *)
(* rendering and parsing end, and the declarations the rendered text       *)
(* parses to.                                                              *)

ImportCall(p) == [fn |-> "import", path |-> p]
NewVarCall(n, b) == [fn |-> "newVar", pref |-> n, body |-> b]

FuncDecl(n, r) == [node |-> "FuncDecl", name |-> n, recv |-> r]
GenDecl(t, s) == [node |-> "GenDecl", tok |-> t, specs |-> s]
ImportSpec(p, n) == [path |-> p, name |-> n]
TypeSpec(n) == [name |-> n]
ValueSpec(ns) == [names |-> ns]

NewVarParentFresh(g) == {}

\* the names the newVar scope sees above it: it is one child of g.namespace,
\* made when the function map is built
NewVarParent(g) == g.heap[GenNamespace]

ImportBindingFresh(g, path) ==
    LET r == Import([g EXCEPT !.imports = NewGenerator.imports], path)
    IN  [g |-> [r.g EXCEPT !.imports = g.imports], name |-> r.name]

\* the template function import is g.Import
ImportBinding(g, path) == Import(g, path)

RECURSIVE Execute(_, _, _, _)
Execute(g, child, calls, rets) ==
    IF calls = <<>> THEN [g |-> g, rets |-> rets]
    ELSE LET c == Head(calls)
         IN  IF c.fn = "import"
             THEN LET r == ImportBinding(g, c.path)
                  IN  Execute(r.g, child, Tail(calls), Append(rets, r.name))
             ELSE LET n == NewName(child, NewVarParent(g), c.pref)
                  IN  Execute(g, child \cup {n}, Tail(calls), Append(rets, n))

TextTemplate(g, t) ==
    IF t.outcome = "tmplParseErr"
    THEN [g |-> g, rets |-> <<>>, err |-> "template"]
    ELSE LET r == Execute(g, {}, t.calls, <<>>)
         IN  [g |-> r.g, rets |-> r.rets,
              err |-> IF t.outcome = "execErr" THEN "template" ELSE "none"]

renderTemplate(g, t) == TextTemplate(g, t)

prependDecl(g, decl) == [g EXCEPT !.decls = <<decl>> \o @]

appendDecl(g, decl) == [g EXCEPT !.decls = Append(@, decl)]

RECURSIVE ReserveAll(_, _)
ReserveAll(g, names) ==
    IF names = <<>> THEN [g |-> g, err |-> "none"]
    ELSE LET r == Reserve(g, GenNamespace, Head(names))
         IN  IF r.err # "none" THEN r ELSE ReserveAll(r.g, Tail(names))

RECURSIVE AddAllImportSpecs(_, _)
AddAllImportSpecs(g, specs) ==
    IF specs = <<>> THEN [g |-> g, err |-> "none"]
    ELSE LET r == AddImportSpec(g, Head(specs))
         IN  IF r.err # "none" THEN r ELSE AddAllImportSpecs(r.g, Tail(specs))

RECURSIVE ValueNames(_)
ValueNames(specs) ==
    IF specs = <<>> THEN <<>> ELSE Head(specs).names \o ValueNames(Tail(specs))

TypeNames(specs) == [k \in 1..Len(specs) |-> specs[k].name]

recordGenDeclNamesTypeUnchecked(g, d) ==
    CASE d.tok = "IMPORT" -> AddAllImportSpecs(g, d.specs)
      [] d.tok = "CONST"  -> ReserveAll(g, ValueNames(d.specs))
      [] d.tok = "TYPE"   -> [g |-> g, err |-> "none"]
      [] d.tok = "VAR"    -> ReserveAll(g, ValueNames(d.specs))
      [] OTHER            -> [g |-> g, err |-> "unknown"]

recordGenDeclNames(g, d) ==
    CASE d.tok = "IMPORT" -> AddAllImportSpecs(g, d.specs)
      [] d.tok = "CONST"  -> ReserveAll(g, ValueNames(d.specs))
      [] d.tok = "TYPE"   -> ReserveAll(g, TypeNames(d.specs))
      [] d.tok = "VAR"    -> ReserveAll(g, ValueNames(d.specs))
      [] OTHER            -> [g |-> g, err |-> "unknown"]

AnyFunc(d) == TRUE

\* d.Recv == nil: the declaration is a top-level function
IsTopLevelFunc(d) == ~d.recv

RECURSIVE Collect(_, _)
Collect(g, ds) ==
    IF ds = <<>> THEN [g |-> g, err |-> "none"]
    ELSE LET d == Head(ds)
             r == IF d.node = "FuncDecl"
                  THEN IF IsTopLevelFunc(d)
                       THEN Reserve(g, GenNamespace, d.name)
                       ELSE [g |-> g, err |-> "none"]
                  ELSE recordGenDeclNames(g, d)
         IN  IF r.err # "none" THEN r
             ELSE Collect(appendDecl(r.g, d), Tail(ds))

DeclareFromTemplate(g, t) ==
    LET r == renderTemplate(g, t)
    IN  IF r.err # "none" THEN [g |-> r.g, rets |-> r.rets, err |-> r.err]
        ELSE IF t.outcome = "goParseErr"
        THEN [g |-> r.g, rets |-> r.rets, err |-> "syntax"]
        ELSE LET c == Collect(r.g, t.decls)
             IN  [g |-> c.g, rets |-> r.rets, err |-> c.err]

Write(g) == importDecl(g) \o g.decls

----------------------------------------------------------------------------
(* Inputs *)

SeqsUpTo(S, n) == UNION {[1..k -> S] : k \in 0..n}

Calls == {ImportCall(p) : p \in Paths}
            \cup {NewVarCall(n, b) : n \in VarPrefs, b \in Bodies}

FragDecls ==
    {FuncDecl(n, r) : n \in FuncNames, r \in BOOLEAN}
        \cup {GenDecl("TYPE", <<TypeSpec(n)>>) : n \in DeclNames}
        \cup {GenDecl("VAR", <<ValueSpec(<<n, m>>)>>) : n, m \in DeclNames}
        \cup {GenDecl("CONST", <<ValueSpec(<<n>>)>>) : n \in DeclNames}
        \cup {GenDecl("IMPORT", <<ImportSpec(p, NoName)>>) : p \in Paths}

Template(cs, o, ds) == [calls |-> cs, outcome |-> o, decls |-> ds]

\* what one TextTemplate call can be given
Renders ==
    {Template(cs, o, <<>>) : cs \in SeqsUpTo(Calls, MaxTemplate), o \in {"ok", "execErr"}}
        \cup {Template(<<>>, "tmplParseErr", <<>>)}

\* what one DeclareFromTemplate call can be given
Templates ==
    Renders
        \cup {Template(cs, "goParseErr", <<>>) : cs \in SeqsUpTo(Calls, MaxTemplate)}
        \cup UNION {{Template(cs, "ok", ds) :
                        ds \in SeqsUpTo(FragDecls, MaxTemplate - Len(cs))} :
                    cs \in SeqsUpTo(Calls, MaxTemplate)}

----------------------------------------------------------------------------
(* The generator as a state machine *)

State == [heap |-> heap, imports |-> imports, decls |-> decls]

Idle == [op |-> "idle", err |-> "none"]

Init ==
    /\ heap = NewGenerator.heap
    /\ imports = NewGenerator.imports
    /\ decls = NewGenerator.decls
    /\ last = Idle
    /\ pre = NewGenerator

Becomes(g) ==
    /\ heap' = g.heap
    /\ imports' = g.imports
    /\ decls' = g.decls
    /\ pre' = State

DoTextTemplate ==
    /\ last = Idle
    /\ \E t \in Renders :
        LET r == TextTemplate(State, t)
        IN  /\ Becomes(r.g)
            /\ last' = [op |-> "TextTemplate", tmpl |-> t, rets |-> r.rets, err |-> r.err]

DoDeclareFromTemplate ==
    /\ last = Idle
    /\ \E t \in Templates :
        /\ Len(decls) + Len(t.decls) <= MaxDecls
        /\ LET r == DeclareFromTemplate(State, t)
           IN  /\ Becomes(r.g)
               /\ last' = [op |-> "DeclareFromTemplate", tmpl |-> t,
                           rets |-> r.rets, err |-> r.err]

DoImport ==
    /\ last = Idle
    /\ \E p \in Paths :
        LET r == Import(State, p)
        IN  /\ Becomes(r.g)
            /\ last' = [op |-> "Import", path |-> p, ret |-> r.name, err |-> "none"]

DoWrite ==
    /\ last = Idle
    /\ Becomes(State)
    /\ last' = [op |-> "Write", out |-> Write(State), err |-> "none"]

\* the caller has looked at what the call returned and goes on
Return ==
    /\ last # Idle
    /\ last' = Idle
    /\ pre' = State
    /\ UNCHANGED <<heap, imports, decls>>

Next ==
    \/ DoTextTemplate
    \/ DoDeclareFromTemplate
    \/ DoImport
    \/ DoWrite
    \/ Return

Spec == Init /\ [][Next]_vars

----------------------------------------------------------------------------
(* What a unit declares *)

Range(s) == {s[k] : k \in DOMAIN s}

NoDup(s) == \A i, j \in DOMAIN s : i # j => s[i] # s[j]

\* the top-level identifiers a declaration defines
TopNames(d) ==
    IF d.node = "FuncDecl" THEN (IF d.recv THEN <<>> ELSE <<d.name>>)
    ELSE CASE d.tok = "TYPE" -> TypeNames(d.specs)
           [] d.tok \in {"CONST", "VAR"} -> ValueNames(d.specs)
           [] OTHER -> <<>>

RECURSIVE UnitNames(_)
UnitNames(ds) == IF ds = <<>> THEN <<>> ELSE TopNames(Head(ds)) \o UnitNames(Tail(ds))

IsMethod(d) == d.node = "FuncDecl" /\ d.recv
IsImportDecl(d) == d.node = "GenDecl" /\ d.tok = "IMPORT"

Rendered == last.op \in {"TextTemplate", "DeclareFromTemplate"}
Declared == last.op = "DeclareFromTemplate"

TypeA == GenDecl("TYPE", <<TypeSpec(<<"a">>)>>)
MethodA == FuncDecl(<<"a">>, TRUE)

\* the aliases the last template's import calls returned before call j
AliasesBefore(j) == {last.rets[k] : k \in {i \in 1..(j - 1) : last.tmpl.calls[i].fn = "import"}}
\* the names the last template's newVar calls returned before call j
LocalsBefore(j) == {last.rets[k] : k \in {i \in 1..(j - 1) : last.tmpl.calls[i].fn = "newVar"}}
\* the root scope when call j of the last template returned
RootAt(j) == pre.heap[GenNamespace] \cup AliasesBefore(j)

NewVarCalls == {j \in DOMAIN last.rets : last.tmpl.calls[j].fn = "newVar"}
ImportCalls == {j \in DOMAIN last.rets : last.tmpl.calls[j].fn = "import"}

----------------------------------------------------------------------------
(* C1: no two declarations of the unit define the same top-level           *)
(* identifier, and a DeclareFromTemplate call whose fragment declares a    *)
(* name that was already reserved in the root scope returns an error.      *)
C1_UniqueTopLevelNames ==
    /\ NoDup(UnitNames(decls))
    /\ (Declared /\ \E n \in Range(UnitNames(last.tmpl.decls)) : n \in pre.heap[GenNamespace])
          => last.err # "none"

\* type a was accepted, a second fragment defining type a failed, one a remains
C1_Witness ==
    /\ Declared
    /\ last.tmpl.decls = <<TypeA>>
    /\ TypeA \in Range(pre.decls)
    /\ last.err = "collision"
    /\ Cardinality({k \in DOMAIN decls : decls[k] = TypeA}) = 1

(* C2: a DeclareFromTemplate call that fails with a name collision leaves  *)
(* the reserved names, the import registry and the declaration list as     *)
(* they were before the call. Stated for templates that call no template   *)
(* function, so that only the collection of the fragment acts.             *)
C2_CollisionLeavesStateUnchanged ==
    (Declared /\ last.tmpl.calls = <<>> /\ last.err = "collision") => State = pre

(* C3: successful DeclareFromTemplate calls append their declarations in   *)
(* encounter order, and Write emits the declaration list as it is, after   *)
(* the generated import block when there is one.                           *)
C3_OrderPreserved ==
    /\ (Declared /\ last.err = "none") => decls = pre.decls \o last.tmpl.decls
    /\ last.op = "Write" =>
          LET k == IF DOMAIN imports = {} THEN 0 ELSE 1
          IN  /\ Len(last.out) = k + Len(decls)
              /\ \A i \in DOMAIN decls : last.out[k + i] = decls[i]
              /\ k = 1 => /\ IsImportDecl(last.out[1])
                          /\ {sp.path : sp \in Range(last.out[1].specs)} = DOMAIN imports

C3_Witness ==
    /\ last.op = "Write"
    /\ DOMAIN imports # {}
    /\ Len(decls) >= 2
    /\ decls[1] # decls[2]
    /\ last.out[2] = decls[1]

(* C4: a DeclareFromTemplate call that fails while rendering or parsing    *)
(* leaves the unit's imports and declarations as they were.                *)
C4_RenderFailureLeavesUnitUnchanged ==
    (Declared /\ last.err \in {"template", "syntax"})
        => (imports = pre.imports /\ decls = pre.decls)

(* C5: a path keeps the alias it was first given, every Import call        *)
(* returns the alias registered for its path, and two paths never have     *)
(* the same alias.                                                         *)
C5_ImportIdempotent ==
    /\ \A p \in DOMAIN pre.imports : p \in DOMAIN imports /\ imports[p] = pre.imports[p]
    /\ Rendered => \A j \in ImportCalls :
          /\ last.tmpl.calls[j].path \in DOMAIN imports
          /\ last.rets[j] = imports[last.tmpl.calls[j].path]
    /\ last.op = "Import" => (last.path \in DOMAIN imports /\ last.ret = imports[last.path])
    /\ \A p, q \in DOMAIN imports : p # q => imports[p] # imports[q]

\* a repeated Import of a path while another path with the same base is registered
C5_Witness ==
    /\ last.op = "Import"
    /\ last.path \in DOMAIN pre.imports
    /\ DOMAIN imports = Paths
    /\ last.ret = pre.imports[last.path]
    /\ {imports[p] : p \in Paths} = {<<"a">>, <<"a", "2">>}

(* C6: no import alias equals a top-level name the unit declares: a        *)
(* fragment declaring an assigned alias is rejected, and Import of a path  *)
(* whose derived alias is already declared returns another alias.          *)
C6_AliasesDistinctFromDeclaredNames ==
    /\ \A p \in DOMAIN imports : imports[p] \notin Range(UnitNames(decls))
    /\ (Declared /\ \E n \in Range(UnitNames(last.tmpl.decls)) :
                       n \in {pre.imports[p] : p \in DOMAIN pre.imports})
          => last.err # "none"
    /\ (last.op = "Import" /\ last.path \notin DOMAIN pre.imports
          /\ AliasBase(last.path) \in Range(UnitNames(pre.decls)))
          => last.ret # AliasBase(last.path)

C6_Witness ==
    /\ last.op = "Import"
    /\ TypeA \in Range(pre.decls)
    /\ last.path \notin DOMAIN pre.imports
    /\ last.ret = <<"a", "2">>

(* C7: in what Write emits, every imported path appears exactly once and   *)
(* no import declaration follows the generated import block.               *)
C7_OneImportBlock ==
    last.op = "Write" =>
        /\ \A p \in DOMAIN imports :
              Cardinality({ik \in {<<i, k>> : i \in DOMAIN last.out, k \in 1..Cardinality(Paths)} :
                              /\ IsImportDecl(last.out[ik[1]])
                              /\ ik[2] \in DOMAIN last.out[ik[1]].specs
                              /\ last.out[ik[1]].specs[ik[2]].path = p}) = 1
        /\ \A i \in DOMAIN last.out : IsImportDecl(last.out[i]) => i = 1

(* C8: a newVar request for a function body returns the preferred name     *)
(* unless that name is reserved in the root scope or was handed out for    *)
(* the same body, in one template or across templates; and newVar          *)
(* reserves nothing in the root scope.                                     *)
C8_BodiesDoNotSeeEachOther ==
    (Rendered /\ last.tmpl.outcome = "ok") =>
        /\ \A j \in NewVarCalls :
              LET c == last.tmpl.calls[j]
                  sameBody == {last.rets[k] : k \in {i \in NewVarCalls :
                                  i < j /\ last.tmpl.calls[i].body = c.body}}
              IN  (c.pref \notin RootAt(j) \cup Keywords \cup sameBody) => last.rets[j] = c.pref
        /\ last.op = "TextTemplate" =>
              heap[GenNamespace] = pre.heap[GenNamespace] \cup AliasesBefore(Len(last.rets) + 1)

(* C9: newVar always returns; it returns the preferred name when that is   *)
(* free and a suffixed variant otherwise; the name differs from every      *)
(* name of the root scope and from every name newVar returned before in    *)
(* the same scope.                                                         *)
C9_NewVarFresh ==
    Rendered =>
        /\ last.tmpl.outcome # "tmplParseErr" => Len(last.rets) = Len(last.tmpl.calls)
        /\ \A j \in NewVarCalls :
              LET c == last.tmpl.calls[j]
                  seen == RootAt(j) \cup LocalsBefore(j)
              IN  /\ last.rets[j] \notin seen
                  /\ c.pref \notin seen \cup Keywords => last.rets[j] = c.pref
                  /\ c.pref \in seen \cup Keywords =>
                        \E i \in 2..(Cardinality(seen \cup Keywords) + 2) :
                            last.rets[j] = Sprintf(c.pref, i)

\* a is a global, and two requests for a get a2 and a3
C9_Witness ==
    /\ Rendered
    /\ <<"a">> \in pre.heap[GenNamespace]
    /\ Len(last.rets) = 2
    /\ NewVarCalls = {1, 2}
    /\ last.rets = << <<"a", "2">>, <<"a", "3">> >>

(* C10: a fragment made of methods is accepted whatever names are          *)
(* reserved, reserves nothing, and is appended; and a fragment whose       *)
(* top-level names are not reserved is accepted whatever methods the unit  *)
(* holds.                                                                  *)
C10_MethodsAreNotReserved ==
    /\ (Declared /\ last.tmpl.outcome = "ok" /\ \A d \in Range(last.tmpl.decls) : IsMethod(d))
          => /\ last.err = "none"
             /\ heap[GenNamespace] = pre.heap[GenNamespace] \cup AliasesBefore(Len(last.rets) + 1)
             /\ decls = pre.decls \o last.tmpl.decls
    /\ (Declared /\ last.tmpl.outcome = "ok" /\ last.tmpl.calls = <<>>
          /\ \A d \in Range(last.tmpl.decls) : ~IsImportDecl(d)
          /\ NoDup(UnitNames(last.tmpl.decls))
          /\ Range(UnitNames(last.tmpl.decls)) \cap pre.heap[GenNamespace] = {})
          => last.err = "none"

\* a second method a is accepted, then a type a after two methods a
C10_Witness ==
    /\ Declared
    /\ last.tmpl.decls = <<TypeA>>
    /\ last.err = "none"
    /\ Cardinality({k \in DOMAIN pre.decls : pre.decls[k] = MethodA}) = 2

====
